---- MODULE Spec2Model ----
(***************************************************************************)
(* nativescript-component: the component-instance registry                 *)
(* (ComponentManager), the Component base class (attribute/context         *)
(* binding, get/set) and the outside-in init ordering protocol             *)
(* (_hookUpPageLoadedEvent, _callPublicInitHook, _onPageLoaded).           *)
(*                                                                         *)
(* Values are integers: 0 is `undefined`, a context, component, function   *)
(* or promise is referred to by its index in the heap sequence that holds  *)
(* it.  The host framework (view tree, events, binding-context             *)
(* inheritance, promises) is modelled only through the interface the       *)
(* source uses.                                                            *)
(***************************************************************************)
EXTENDS Integers, Sequences, FiniteSets, TLC

\* ---------------------------------------------------------------- bounds
\* Events the host delivers in a behaviour of the registry specification
MaxHooks == 2
MaxModals == 1
MaxUnloads == 1
MaxCalls == 1
MaxWrites == 1
\* Events the host delivers in a behaviour of the binding specification
BindHooks == 3
BindCalls == 2
BindWrites == 1
\* Views of the view graphs getComponentForView is applied to
MaxWalkViews == 3
\* Events the host delivers in a behaviour of the ordering specification
OrdHooks == 3
OrdLoads == 1
\* Events and direct calls in a behaviour of the accessor specification
AccHooks == 2
AccWrites == 1
AccCalls == 2
\* Events and direct calls in a behaviour of the modal specification
ModHooks == 2
ModModals == 1
ModCalls == 2
\* Controllers that application code constructs itself
MaxConstructed == 1
\* Events the host delivers in a behaviour of the reload specification
ReloadHooks == 3
ReloadUnloads == 2
\* Teardown: hooks, `loaded` events of the page and `unloaded` events.
TearHooks == 2
TearLoads == 2
TearUnloads == 1
\* Progress: hooks and `loaded` events of the page.
LiveHooks == 3
LiveLoads == 1
\* Events the host delivers in a behaviour of the attribute specification
AttrHooks == 3
AttrCalls == 2
\* Invocations of user inits after which the host delivers nothing more
MaxInits == 4
\* Depth of nested init calls at which the engine's call stack is exhausted.
MaxDepth == 3

\* ------------------------------------------------------- the view tree
\* Frame 1 > Page 2 > {3, 4};  3 > 5.  0 is "no view".
Frame == 1
PageV == 2
Views == 1..5
CompViews == {2, 3, 4, 5}
Parent == <<0, 1, 2, 2, 3>>

RECURSIVE IsAncestor(_, _)
IsAncestor(a, v) ==
    IF Parent[v] = 0 THEN FALSE
    ELSE Parent[v] = a \/ IsAncestor(a, Parent[v])

Undef == 0
Classes == {"P", "A", "D", "S"}
\* Which class's module handles each view ("": a view that is no
\* component's root).  Registry: two siblings of one class under a page
\* component; a view nested in a view of its own class; two views of a
\* singleton class.  Ordering: a page, two siblings and a nested component.
Layouts ==
    { <<"", "P", "A", "A", "">>,
      <<"", "", "A", "", "A">>,
      <<"", "", "S", "S", "">> }
OrderLayouts ==
    { <<"", "P", "A", "A", "D">> }
BindingLayouts ==
    { <<"", "P", "A", "A", "">> }
\* Reload: a page component and one component nested in it.
ReloadLayouts ==
    { <<"", "P", "A", "", "">> }
\* Accessors, modals and navigation: a page component.
ModalLayouts ==
    { <<"", "P", "", "", "">> }
\* Attributes: a component (view 3) whose template declares a child
\* component (view 5) with XML attributes.
AttrLayouts ==
    { <<"", "", "A", "", "D">> }

Keys == {"_componentId", "_component", "x", "fieldName", "record", "nav",
         "user"}
AttrNames == {"fieldName", "record"}
NoProps == [k \in Keys |-> Undef]
\* Properties the host placed on the view object for XML attributes:
\* view 5 carries fieldName="firstName" (7) and record="{{ user }}" (9,
\* the empty object the host leaves on the view for an expression); the
\* page carries fieldName="title" (6).
ViewProp == [v \in Views |->
    IF v = 5 THEN [NoProps EXCEPT !["fieldName"] = 7, !["record"] = 9]
    ELSE IF v = PageV THEN [NoProps EXCEPT !["fieldName"] = 6]
    ELSE NoProps]
\* The property of the binding context that an expression attribute of a
\* view is bound to ("": the attribute is no expression).
Expression(view, n) == IF view = 5 /\ n = "record" THEN "user" ELSE ""
\* view.navigationContext: the page was navigated to with
\* {nav: 3, fieldName: 8}.
NavContext == [v \in Views |->
    IF v = PageV THEN [NoProps EXCEPT !["nav"] = 3, !["fieldName"] = 8]
    ELSE NoProps]
UserValues == {1}
\* Names and values a method of the attribute specification sets: -1 is a
\* defined value that is falsy (0, '', false, null).
AttrMethodNames == {"user", "fieldName"}
AttrValues == {1, -1}
InitKinds == {"ok", "throw", "promise"}
HookNames == {"onLoaded", "onNavigatingTo", "onNavigatedTo", "onShownModally"}
MaxIterations == 500

VARIABLES
    classOf,     \* the component class whose module handles each view
    comps,       \* heap of Component objects: _id, _view, init slot, ...
    instances,   \* ComponentManager._instances, per class
    fns,         \* heap of function objects that sit in an `init` slot
    ctxs,        \* heap of binding-context objects
    bc,          \* view.bindingContext as set on the view itself (0: unset)
    unloadH,     \* number of `unloaded` listeners armed on each view
    pageSubs,    \* listeners of the page's `loaded` event, in order
    pending,     \* listeners still to be notified in the current dispatch
    snap,        \* how many listeners the last `loaded` event had to notify
    isLoaded,    \* page.isLoaded
    promises,    \* heap of promises
    conts,       \* reactions registered with .then, not yet run
    initLog,     \* history: every invocation of a user init
    hookLog,     \* history: the view of every init-hook export call
    last,        \* history: the last operation, its target and its outcome
    cnt,         \* how many events of each kind the host has delivered
    lim,         \* how many events of each kind the host delivers at most
    walk,        \* a view graph and the outcome of getComponentForView on it
    host         \* direct calls on controllers: the outcome of the last one,
                 \* the promises showModal returned, and the calls that
                 \* reached the host's showModal, navigate and close callback

vars == <<classOf, comps, instances, fns, ctxs, bc, unloadH, pageSubs,
          snap, pending, isLoaded, promises, conts, initLog, hookLog, last, cnt,
          lim, walk, host>>

IsSingleton(cls) == cls = "S"
IsComponentView(v) == classOf[v] # ""

\* The function object found on the prototype of each class: every class
\* of the layouts overrides init, so there is one per class.
ProtoFn(cls) ==
    CASE cls = "P" -> 1 [] cls = "A" -> 2 [] cls = "D" -> 3 [] OTHER -> 4

\* --------------------------------------------------------------- world
\* The handlers are sequential code; they are computed as transformations
\* of a record holding the mutable heap.
World ==
    [comps |-> comps, instances |-> instances, fns |-> fns, ctxs |-> ctxs,
     bc |-> bc, unloadH |-> unloadH, pageSubs |-> pageSubs,
     promises |-> promises, conts |-> conts, initLog |-> initLog,
     threw |-> {}, logged |-> 0]

Commit(w) ==
    /\ comps' = w.comps
    /\ instances' = w.instances
    /\ fns' = w.fns
    /\ ctxs' = w.ctxs
    /\ bc' = w.bc
    /\ unloadH' = w.unloadH
    /\ pageSubs' = w.pageSubs
    /\ promises' = w.promises
    /\ conts' = w.conts
    /\ initLog' = w.initLog

Res(w, ret, err) == [w |-> w, ret |-> ret, err |-> err]

\* ------------------------------------------------- binding contexts
\* view.bindingContext: a view whose own context is unset inherits its
\* parent's.
RECURSIVE ViewBindingContext(_, _)
ViewBindingContext(b, v) ==
    IF v = 0 THEN Undef
    ELSE IF b[v] # 0 THEN b[v]
    ELSE ViewBindingContext(b, Parent[v])

\* component-utils getBindingContextProperty.  GetObservableProperty reads
\* through the observable's store only, which a plain object lacks.
GetObservableProperty(w, ctx, name) ==
    IF w.ctxs[ctx].obs THEN w.ctxs[ctx].p[name] ELSE Undef
GetBindingContextProperty(w, ctx, name) ==
    IF w.ctxs[ctx].obs THEN w.ctxs[ctx].p[name]   \* bindingContext.get(name)
    ELSE w.ctxs[ctx].p[name]                     \* bindingContext[name]

\* Component.bindingContext getter
CompBindingContext(w, c) == ViewBindingContext(w.bc, w.comps[c].view)

\* Component._validateBindingContext: TRUE when it throws
ValidateThrows(w, c) == CompBindingContext(w, c) = Undef

\* Component.set, on a component whose binding context is defined
CompSet(w, c, name, value) ==
    LET ctx == CompBindingContext(w, c) IN
    IF w.ctxs[ctx].obs
    THEN [w EXCEPT !.ctxs[ctx].p[name] = value]  \* bindingContext.set(name, value)
    ELSE [w EXCEPT !.ctxs[ctx].p[name] = value]  \* bindingContext[name] = value

\* Component.get; undefined stands for the throw of an undefined context
CompGet(w, c, name) ==
    IF ValidateThrows(w, c) THEN Undef
    ELSE GetBindingContextProperty(w, CompBindingContext(w, c), name)

\* Component.view getter: TRUE when it throws
ViewGetterThrows(w, c) == w.comps[c].view = Undef

\* Component.bindingContext getter as called by application code; err -1
\* is the Error of the view getter.
BindingContextGetter(w, c) ==
    IF ViewGetterThrows(w, c) THEN Res(w, Undef, -1)
    ELSE Res(w, CompBindingContext(w, c), 0)

\* Component.set as called by application code; err -1 is the Error of
\* the view getter or of _validateBindingContext.
\* ComponentSetCreating gives the view a context where set throws for the
\* lack of one.
ComponentSetCreating(w, c, name, value) ==
    IF ViewGetterThrows(w, c) THEN Res(w, Undef, -1)
    ELSE IF ValidateThrows(w, c)
    THEN Res([w EXCEPT !.ctxs = Append(w.ctxs,
                                       [obs |-> FALSE,
                                        p |-> [k \in Keys |->
                                                 IF k = name THEN value
                                                 ELSE Undef]]),
                       !.bc[w.comps[c].view] = Len(w.ctxs) + 1],
             Undef, 0)
    ELSE Res(CompSet(w, c, name, value), Undef, 0)
ComponentSet(w, c, name, value) ==
    IF ViewGetterThrows(w, c) \/ ValidateThrows(w, c) THEN Res(w, Undef, -1)
    ELSE Res(CompSet(w, c, name, value), Undef, 0)

\* Component.get as called by application code
ComponentGet(w, c, name) ==
    IF ViewGetterThrows(w, c) \/ ValidateThrows(w, c) THEN Res(w, Undef, -1)
    ELSE Res(w, GetBindingContextProperty(w, CompBindingContext(w, c), name), 0)

NewObservable == [obs |-> TRUE, p |-> NoProps]
NewPlainObject == [obs |-> FALSE, p |-> NoProps]

\* Component._setNewBindingContextIfNeeded; KeepDefinedBindingContext
\* replaces a context only when the view has none at all,
\* AlwaysNewBindingContext replaces it at every hook.
AlwaysNewBindingContext(w, c) ==
    [w EXCEPT !.ctxs = Append(w.ctxs, NewObservable),
              !.bc[w.comps[c].view] = Len(w.ctxs) + 1]
KeepDefinedBindingContext(w, c) ==
    LET v == w.comps[c].view
    IN IF ViewBindingContext(w.bc, v) = Undef
       THEN [w EXCEPT !.ctxs = Append(w.ctxs, NewObservable),
                      !.bc[v] = Len(w.ctxs) + 1]
       ELSE w
SetNewBindingContextIfNeeded(w, c) ==
    LET v == w.comps[c].view
        parentBindingContext ==
            IF Parent[v] # 0 THEN ViewBindingContext(w.bc, Parent[v])
            ELSE Undef
    IN IF ViewBindingContext(w.bc, v) = parentBindingContext
       THEN [w EXCEPT !.ctxs = Append(w.ctxs, NewObservable),
                      !.bc[v] = Len(w.ctxs) + 1]
       ELSE w

\* The body of one invocation of component-utils getComponentForView on a
\* view graph: parent[v] is v._parent (0: none), component[v] the
\* _component that v.bindingContext carries (0: none, or no binding
\* context).  It throws, returns (ret 0 is null) or calls itself.
\* WalkStepReturningNull gives up with null where the code throws.
WalkStepReturningNull(parent, component, view, maxIterations) ==
    CASE maxIterations < 1 ->
            [kind |-> "return", ret |-> 0, view |-> view,
             maxIterations |-> maxIterations]
      [] maxIterations >= 1 /\ component[view] # Undef ->
            [kind |-> "return", ret |-> component[view], view |-> view,
             maxIterations |-> maxIterations]
      [] maxIterations >= 1 /\ component[view] = Undef /\ parent[view] # 0 ->
            [kind |-> "call", ret |-> 0, view |-> parent[view],
             maxIterations |-> maxIterations - 1]
      [] OTHER ->
            [kind |-> "return", ret |-> 0, view |-> view,
             maxIterations |-> maxIterations]
WalkStep(parent, component, view, maxIterations) ==
    CASE maxIterations < 1 ->
            [kind |-> "throw", ret |-> -1, view |-> view,
             maxIterations |-> maxIterations]
      [] maxIterations >= 1 /\ component[view] # Undef ->
            [kind |-> "return", ret |-> component[view], view |-> view,
             maxIterations |-> maxIterations]
      [] maxIterations >= 1 /\ component[view] = Undef /\ parent[view] # 0 ->
            [kind |-> "call", ret |-> 0, view |-> parent[view],
             maxIterations |-> maxIterations - 1]
      [] OTHER ->
            [kind |-> "return", ret |-> 0, view |-> view,
             maxIterations |-> maxIterations]

\* getComponentForView run to its end: 0 is null, -1 is the throw of the
\* iteration bound.
RECURSIVE WalkToComponent(_, _, _, _)
WalkToComponent(parent, component, view, maxIterations) ==
    LET s == WalkStep(parent, component, view, maxIterations) IN
    IF s.kind = "call"
    THEN WalkToComponent(parent, component, s.view, s.maxIterations)
    ELSE s.ret

\* The _component carried by the binding context of each view of the tree
ComponentOfContext(w) ==
    [v \in Views |->
        IF ViewBindingContext(w.bc, v) = Undef THEN Undef
        ELSE GetBindingContextProperty(w, ViewBindingContext(w.bc, v), "_component")]

\* getComponentForView on the view tree: 0 is null, -1 is the throw of
\* the iteration bound.
GetComponentForView(w, view, maxIterations) ==
    WalkToComponent(Parent, ComponentOfContext(w), view, maxIterations)

\* Component._getParentComponent
GetParentComponent(w, c) ==
    LET v == w.comps[c].view IN
    IF Parent[v] = v THEN 0
    ELSE GetComponentForView(w, Parent[v], MaxIterations)

\* ------------------------------------------------------ init ordering
IsPromise(x) == x # Undef

Tracked(w, c) ==
    \E cls \in Classes : \E i \in 1..Len(w.instances[cls]) :
        w.instances[cls][i] = c

Inited(log, c) == \E i \in 1..Len(log) : log[i].c = c

\* The component's binding context carries the component's own marker:
\* its _componentId or the _component back-reference.
CarriesOwnMarker(w, c) ==
    /\ ~ValidateThrows(w, c)
    /\ \/ GetBindingContextProperty(w, CompBindingContext(w, c), "_componentId")
            = w.comps[c].id
       \/ GetBindingContextProperty(w, CompBindingContext(w, c), "_component") = c

\* The user's init of component c.  kinds[v] is what the init written for
\* the view's component does: return nothing, throw, or return a promise.
UserInit(w, c, kinds) ==
    LET v == w.comps[c].view
        kind == kinds[v]
        anc == {a \in 1..Len(w.comps) :
                   /\ a # c
                   /\ Tracked(w, a)
                   /\ IsAncestor(w.comps[a].view, v)}
        early == {a \in anc : ~Inited(w.initLog, a)}
        waits == {a \in anc : \E i \in 1..Len(w.initLog) :
                    /\ w.initLog[i].c = a
                    /\ w.initLog[i].p # 0
                    /\ w.promises[w.initLog[i].p].st = "pending"}
        p == IF kind = "promise" THEN Len(w.promises) + 1 ELSE 0
        entry == [c |-> c, kind |-> kind, p |-> p, early |-> early,
                  waits |-> waits, marked |-> CarriesOwnMarker(w, c)]
        w1 == [w EXCEPT !.initLog = Append(w.initLog, entry)]
    IN CASE kind = "ok" -> Res(w1, Undef, 0)
         [] kind = "throw" ->
              Res([w1 EXCEPT !.threw = w1.threw \cup {c}], Undef, c)
         [] OTHER ->
              Res([w1 EXCEPT !.promises =
                      Append(w1.promises, [st |-> "pending", user |-> TRUE])],
                  p, 0)

\* returnValue.catch(() => {}).then(() => child._callPublicInitHook())
ChainInit(w, on, child) ==
    LET d == Len(w.promises) + 1 IN
    Res([w EXCEPT
            !.promises = Append(w.promises, [st |-> "pending", user |-> FALSE]),
            !.conts = w.conts \cup
                {[on |-> on, kind |-> "init", comp |-> child, out |-> d]}],
        d, 0)

\* this.init._returnValue = this.init(): r is the outcome of this.init(),
\* f the function object this.init was when the call began; a throw
\* leaves _returnValue as it was.
SetReturnValue(r, f) ==
    IF r.err # 0 THEN r
    ELSE Res([r.w EXCEPT !.fns[f].returnValue = r.ret], r.ret, 0)

RECURSIVE CallFn(_, _, _, _, _)
RECURSIVE AfterOriginalInit(_, _, _, _)
RECURSIVE CallPublicInitHook(_, _, _, _)

\* Component._callPublicInitHook.  d is the depth of nested init calls; a
\* call beyond MaxDepth throws the engine's RangeError (err -2).
CallPublicInitHook(w, c, kinds, d) ==
    IF d > MaxDepth THEN Res(w, Undef, -2)
    ELSE SetReturnValue(CallFn([w EXCEPT !.fns[w.comps[c].init].wasCalled = TRUE],
                               w.comps[c].init, c, kinds, d),
                        w.comps[c].init)

\* Calling the function object f with `this` = c: the class's own init, or
\* the wrapper installed by a child's _onPageLoaded.
CallFn(w, f, c, kinds, d) ==
    IF w.fns[f].kind = "proto" THEN UserInit(w, c, kinds)
    ELSE AfterOriginalInit(CallFn(w, w.fns[f].orig, w.fns[f].self, kinds, d),
                           w.fns[f].child, kinds, d)

\* The wrapper's body after originalParentInitFunction(...args): r is the
\* outcome of that call, whose error the empty catch drops.
AfterOriginalInit(r, child, kinds, d) ==
    IF r.err = 0 /\ IsPromise(r.ret)
    THEN ChainInit(r.w, r.ret, child)
    ELSE CallPublicInitHook(r.w, child, kinds, d + 1)

\* Component._onPageLoaded
OnPageLoaded(w, c, kinds) ==
    LET parentComponent == GetParentComponent(w, c) IN
    IF parentComponent = 0 THEN CallPublicInitHook(w, c, kinds, 1)
    ELSE LET pf == w.comps[parentComponent].init IN
         IF w.fns[pf].wasCalled
         THEN IF IsPromise(w.fns[pf].returnValue)
              THEN ChainInit(w, w.fns[pf].returnValue, c)
              ELSE CallPublicInitHook(w, c, kinds, 1)
         ELSE LET wrapper == [kind |-> "wrap", orig |-> pf,
                              self |-> parentComponent, child |-> c,
                              wasCalled |-> FALSE, returnValue |-> Undef]
              IN Res([w EXCEPT !.fns = Append(w.fns, wrapper),
                               !.comps[parentComponent].init = Len(w.fns) + 1],
                     Undef, 0)

\* ------------------------------------------------- ComponentManager
\* generateUuid: the n-th identifier drawn; the 128 random bits are taken
\* to be fresh.
GenerateUuid(n) == n

FindIndex(w, cls, componentId) ==
    LET hits == {i \in 1..Len(w.instances[cls]) :
                    w.comps[w.instances[cls][i]].id = componentId}
    IN IF hits = {} THEN 0 ELSE CHOOSE i \in hits : \A j \in hits : i <= j

\* ComponentManager._getComponentId
GetComponentId(w, ctx) == GetBindingContextProperty(w, ctx, "_componentId")

\* ComponentManager._getComponentForRootView (0 is null)
GetComponentForRootView(w, cls, view) ==
    LET ctx == ViewBindingContext(w.bc, view) IN
    IF ctx = Undef THEN 0
    ELSE LET componentId == GetComponentId(w, ctx) IN
         IF componentId = Undef THEN 0
         ELSE LET i == FindIndex(w, cls, componentId) IN
              IF i = 0 THEN 0 ELSE w.instances[cls][i]

\* ComponentManager._addNewComponent; the new component is Len(comps) + 1
AddNewComponent(w, cls, view) ==
    LET component == [id |-> GenerateUuid(Len(w.comps) + 1), view |-> view,
                      init |-> ProtoFn(cls), cls |-> cls,
                      modalContext |-> Undef, closeModalCallback |-> Undef]
        w1 == [w EXCEPT !.comps = Append(w.comps, component),
                        !.instances[cls] = Append(w.instances[cls], Len(w.comps) + 1)]
    IN IF IsSingleton(cls) THEN w1
       ELSE [w1 EXCEPT !.unloadH[view] = w1.unloadH[view] + 1]

\* Array.prototype.splice(i, 1); RemoveFirst is splice(0, 1)
RemoveFirst(s, i) == Tail(s)
RemoveAt(s, i) == [j \in 1..(Len(s) - 1) |-> IF j < i THEN s[j] ELSE s[j + 1]]

\* The listener of a view's `unloaded` event armed by _addNewComponent.
\* UnloadedHandlerSplicing is the listener without the check of
\* componentIndex === -1: splice(-1, 1) removes the last entry.
UnloadedHandlerSplicing(w, cls, view) ==
    LET ctx == ViewBindingContext(w.bc, view) IN
    IF ctx = Undef THEN [w EXCEPT !.logged = w.logged + 1]
    ELSE LET componentIndex == FindIndex(w, cls, GetComponentId(w, ctx)) IN
         IF componentIndex = 0
         THEN [w EXCEPT !.instances[cls] =
                           SubSeq(w.instances[cls], 1, Len(w.instances[cls]) - 1)]
         ELSE [w EXCEPT !.instances[cls] = RemoveAt(w.instances[cls], componentIndex)]
UnloadedHandler(w, cls, view) ==
    LET ctx == ViewBindingContext(w.bc, view) IN
    IF ctx = Undef THEN [w EXCEPT !.logged = w.logged + 1]
    ELSE LET componentIndex == FindIndex(w, cls, GetComponentId(w, ctx)) IN
         IF componentIndex = 0 THEN [w EXCEPT !.logged = w.logged + 1]
         ELSE [w EXCEPT !.instances[cls] = RemoveAt(w.instances[cls], componentIndex)]

RECURSIVE NotifyUnloaded(_, _, _, _)
NotifyUnloaded(w, cls, view, n) ==
    IF n = 0 THEN w
    ELSE NotifyUnloaded(UnloadedHandler(w, cls, view), cls, view, n - 1)

\* ------------------------------------------------------- Component
\* Component._getNamesOfPropertiesPassedAsXmlAttributes
ParamNames(view) == {n \in AttrNames : ViewProp[view][n] # Undef}

Truthy(x) == x > 0

\* Component._setNavigationContextProperties, context given as its
\* key -> value map (no keys when it is not an object).
\* KeepBoundProperties copies only the keys the binding context lacks.
KeepBoundProperties(w, c, context) ==
    LET ctx == CompBindingContext(w, c) IN
    [w EXCEPT !.ctxs[ctx].p =
        [k \in Keys |-> IF context[k] # Undef /\ @[k] = Undef
                        THEN context[k] ELSE @[k]]]
SetNavigationContextProperties(w, c, context) ==
    LET ctx == CompBindingContext(w, c) IN
    [w EXCEPT !.ctxs[ctx].p =
        [k \in Keys |-> IF context[k] # Undef THEN context[k] ELSE @[k]]]

\* this.view.page.on('loaded', this._onPageLoaded.bind(this)), reached
\* unless the init called just before threw (r is its outcome).
SubscribeLoaded(r, c) ==
    IF r.err # 0 THEN r
    ELSE Res([r.w EXCEPT !.pageSubs = Append(r.w.pageSubs, c)], Undef, 0)

\* Component._hookUpPageLoadedEvent
HookUpPageLoadedEvent(w, c, loaded, kinds) ==
    SubscribeLoaded(IF w.comps[c].view = PageV /\ loaded
                    THEN CallPublicInitHook(w, c, kinds, 1)
                    ELSE Res(w, Undef, 0),
                    c)

\* Component._internalInit
InternalInit(w, c, view, loaded, kinds) ==
    LET w1 == [w EXCEPT !.comps[c].view = view]
        paramNames == ParamNames(view)
        fromOriginal(n) == CompGet(w1, c, n)
        parentCtx == ViewBindingContext(w1.bc, Parent[view])
        fromParent(n) ==
            IF parentCtx = Undef THEN Undef
            ELSE GetBindingContextProperty(w1, parentCtx, n)
        xmlParamsToApply(n) ==
            IF Truthy(fromOriginal(n)) THEN fromOriginal(n)
            ELSE IF Truthy(fromParent(n)) THEN fromParent(n)
            ELSE ViewProp[view][n]
        w2 == SetNewBindingContextIfNeeded(w1, c)
        ctx == CompBindingContext(w2, c)
        w3 == [w2 EXCEPT !.ctxs[ctx].p =
                  [k \in Keys |-> IF k \in paramNames
                                  THEN xmlParamsToApply(k) ELSE @[k]]]
        w4 == SetNavigationContextProperties(w3, c, NavContext[view])
    IN HookUpPageLoadedEvent(w4, c, loaded, kinds)

\* options.context and options.closeCallback of a shownModally event
ModalContext == [NoProps EXCEPT !["x"] = 2]
CloseCallback == 1

\* What onShownModally does after _internalInit (r is its outcome); the
\* other hooks do nothing more.
AfterInternalInit(r, c, methodName) ==
    IF r.err # 0 \/ methodName # "onShownModally" THEN r
    ELSE Res(SetNavigationContextProperties(
                 [r.w EXCEPT !.comps[c].modalContext = 1,
                             !.comps[c].closeModalCallback = CloseCallback],
                 c, ModalContext),
             Undef, 0)

\* Component.onNavigatingTo / onNavigatedTo / onLoaded / onShownModally
LifecycleHook(w, c, methodName, view, loaded, kinds) ==
    AfterInternalInit(InternalInit(w, c, view, loaded, kinds), c, methodName)

\* The singleton fallback of _addInitHookProxyMethod: a singleton class
\* reuses its first instance when the view leads to no component.
\* NoSingletonFallback is the proxy without it.
NoSingletonFallback(w, cls, found) == found
SingletonFallback(w, cls, found) ==
    IF found = 0 /\ IsSingleton(cls) /\ Len(w.instances[cls]) > 0
    THEN w.instances[cls][1] ELSE found

\* The proxy after the hook returned (r is the hook's outcome): a new
\* component gets its _componentId and _component keys.
\* MarkEvenAfterThrow writes them although the hook threw.
MarkEvenAfterThrow(r, component, newComponentAdded) ==
    IF newComponentAdded /\ ~ValidateThrows(r.w, component)
    THEN [r EXCEPT !.w = CompSet(CompSet(r.w, component, "_componentId",
                                          r.w.comps[component].id),
                                  component, "_component", component),
                   !.ret = component]
    ELSE [r EXCEPT !.ret = component]
MarkBindingContext(r, component, newComponentAdded) ==
    IF r.err # 0 THEN [r EXCEPT !.ret = component]
    ELSE IF newComponentAdded
         THEN Res(CompSet(CompSet(r.w, component, "_componentId",
                                  r.w.comps[component].id),
                          component, "_component", component),
                  component, 0)
         ELSE Res(r.w, component, 0)

\* The proxy once the lookup is done: existing is the component found, 0
\* when a new one is to be added.
ProxyInitHook(w, cls, methodName, view, loaded, kinds, existing) ==
    IF existing = 0
    THEN MarkBindingContext(
             LifecycleHook(AddNewComponent(w, cls, view), Len(w.comps) + 1,
                           methodName, view, loaded, kinds),
             Len(w.comps) + 1, TRUE)
    ELSE MarkBindingContext(
             LifecycleHook(w, existing, methodName, view, loaded, kinds),
             existing, FALSE)

\* The export installed by ComponentManager._addInitHookProxyMethod.
\* The result also tells which component the call was forwarded to.
InitHookProxy(w, cls, methodName, view, loaded, kinds) ==
    ProxyInitHook(w, cls, methodName, view, loaded, kinds,
                  SingletonFallback(w, cls, GetComponentForRootView(w, cls, view)))

\* The export installed by ComponentManager._addProxyMethod, for a method
\* of the class that does this.set(name, value).  err -1: an Error that is
\* not an init's; ret: the component the call was forwarded to.
\* MethodProxyReturning returns undefined where _addProxyMethod throws.
\* MethodProxyToFirstInstance forwards to the first instance of the class,
\* as the proxy of a singleton class does.
MethodProxyToFirstInstance(w, cls, view, name, value) ==
    LET component ==
            IF Len(w.instances[cls]) > 0 THEN w.instances[cls][1] ELSE 0
    IN IF component <= 0 THEN Res(w, 0, -1)
       ELSE IF ValidateThrows(w, component) THEN Res(w, component, -1)
       ELSE Res(CompSet(w, component, name, value), component, 0)
MethodProxyReturning(w, cls, view, name, value) ==
    LET component ==
            IF IsSingleton(cls)
            THEN IF Len(w.instances[cls]) > 0 THEN w.instances[cls][1] ELSE 0
            ELSE GetComponentForView(w, view, MaxIterations)
    IN IF component <= 0 THEN Res(w, 0, 0)
       ELSE IF ValidateThrows(w, component) THEN Res(w, component, -1)
       ELSE Res(CompSet(w, component, name, value), component, 0)
MethodProxy(w, cls, view, name, value) ==
    LET component ==
            IF IsSingleton(cls)
            THEN IF Len(w.instances[cls]) > 0 THEN w.instances[cls][1] ELSE 0
            ELSE GetComponentForView(w, view, MaxIterations)
    IN IF IsSingleton(cls) /\ component = 0
       THEN Res([w EXCEPT !.logged = w.logged + 1], 0, 0)
       ELSE IF component <= 0 THEN Res(w, 0, -1)
       ELSE IF ValidateThrows(w, component) THEN Res(w, component, -1)
       ELSE Res(CompSet(w, component, name, value), component, 0)

\* ------------------------------------------- modals and navigation
\* The options given to showModal: modal is 1 ('m') or missing.
ModalOptions ==
    {[modal |-> m, context |-> 2, fullscreen |-> 1] : m \in {Undef, 1}}
\* What the modal passes to the Node-style callback: (err, ret), where
\* null and undefined are 0, an error is 6 and a result is 4.
CallbackArgs == {<<0, 4>>, <<0, 0>>, <<6, 0>>, <<6, 4>>}
\* The arguments given to closeModal
CloseArgs == {<< >>, <<0, 4>>, <<6>>}
\* What the close callback captured by onShownModally returns
CallbackResult == 11
\* The rejection of parameter-validator's validateAsync
ValidationError == 12

Unsettled == [st |-> "pending", value |-> Undef]

\* validateAsync(options, names): TRUE when its promise is rejected.
\* ValidateNothing accepts every options object.
ValidateNothing(options, names) == FALSE
ValidateAsyncRejects(options, names) ==
    \E n \in names : options[n] = Undef

\* Component.showModal up to its return: validateAsync(...).then(...)
\* returns a pending promise; the reaction runs later.
ShowModal(h, options) ==
    [h EXCEPT !.modals = Append(h.modals,
        [options |-> options,
         stage |-> IF ValidateAsyncRejects(options, {"modal"})
                   THEN "invalid" ELSE "valid",
         inner |-> Unsettled, outer |-> Unsettled, cb |-> << >>])]

\* The reaction of showModal's .then: it is skipped when validateAsync
\* rejected, and the returned promise rejects; else it calls
\* currentPage.showModal(modal, context, callback, fullscreen) and returns
\* the promise that the callback settles.
ShowModalReaction(h, i) ==
    IF h.modals[i].stage = "invalid"
    THEN [h EXCEPT !.modals[i].stage = "rejected",
                   !.modals[i].outer = [st |-> "rejected",
                                        value |-> ValidationError]]
    ELSE [h EXCEPT !.modals[i].stage = "shown",
                   !.showModal = Append(h.showModal,
                       [modal |-> h.modals[i].options.modal,
                        context |-> h.modals[i].options.context,
                        callback |-> i,
                        fullscreen |-> h.modals[i].options.fullscreen])]

\* callback = (err, ret) => err ? reject(err) : resolve(ret).
\* CallbackResolving resolves in every case.
CallbackResolving(h, i, err, ret) ==
    [h EXCEPT !.modals[i].cb = <<err, ret>>,
              !.modals[i].inner =
                  IF @.st # "pending" THEN @
                  ELSE [st |-> "resolved", value |-> ret]]
Callback(h, i, err, ret) ==
    [h EXCEPT !.modals[i].cb = <<err, ret>>,
              !.modals[i].inner =
                  IF @.st # "pending" THEN @
                  ELSE IF err > 0 THEN [st |-> "rejected", value |-> err]
                  ELSE [st |-> "resolved", value |-> ret]]

\* The promise showModal returned follows the one its reaction returned.
Follow(h, i) == [h EXCEPT !.modals[i].outer = h.modals[i].inner]

\* Component.closeModal: r.ret is what the callback returned, err -1 the
\* Error thrown for the lack of a callback.
\* CloseModalWithoutArguments calls the callback with no arguments.
CloseModalWithoutArguments(w, h, c, args) ==
    IF w.comps[c].closeModalCallback > 0
    THEN [h |-> [h EXCEPT !.closed =
                    Append(h.closed, [cb |-> w.comps[c].closeModalCallback,
                                      args |-> << >>])],
          ret |-> CallbackResult, err |-> 0]
    ELSE [h |-> h, ret |-> Undef, err |-> -1]
CloseModal(w, h, c, args) ==
    IF w.comps[c].closeModalCallback > 0
    THEN [h |-> [h EXCEPT !.closed =
                    Append(h.closed, [cb |-> w.comps[c].closeModalCallback,
                                      args |-> args])],
          ret |-> CallbackResult, err |-> 0]
    ELSE [h |-> h, ret |-> Undef, err |-> -1]

\* JavaScript values an argument of navigate is made of
JsUndefined == [t |-> "undefined", v |-> ""]
JsString(str) == [t |-> "string", v |-> str]
JsNumber == [t |-> "number", v |-> "5"]
\* A NavigationEntry object with the given component and moduleName
Entry(component, moduleName) ==
    [t |-> "object", v |-> "", component |-> component,
     moduleName |-> moduleName]
\* A module name given as a string, whose properties are undefined
ModuleNameString(str) ==
    [t |-> "string", v |-> str, component |-> JsUndefined,
     moduleName |-> JsUndefined]
NavigateArgs ==
    {<< >>, <<ModuleNameString("bar")>>}
    \cup {<<Entry(c, m)>> : c \in {JsUndefined, JsString("foo"), JsNumber},
                            m \in {JsUndefined, JsString("bar")}}

\* Component.navigate: the arguments that reach frame.topmost().navigate.
\* NavigateToFolder rewrites the entry to components/<component>.
NavigateToFolder(h, args) ==
    IF args # << >> /\ args[1].t = "object" /\ args[1].component.t = "string"
    THEN [h EXCEPT !.navigate = Append(h.navigate,
            <<[args[1] EXCEPT !.moduleName =
                  JsString("components/" \o args[1].component.v)]>>
            \o Tail(args))]
    ELSE [h EXCEPT !.navigate = Append(h.navigate, args)]
Navigate(h, args) ==
    IF args # << >> /\ args[1].t = "object" /\ args[1].component.t = "string"
    THEN [h EXCEPT !.navigate = Append(h.navigate,
            <<[args[1] EXCEPT !.moduleName =
                  JsString("components/" \o args[1].component.v \o "/"
                           \o args[1].component.v)]>>
            \o Tail(args))]
    ELSE [h EXCEPT !.navigate = Append(h.navigate, args)]

\* ------------------------------------------------------------ actions
NoLast == [op |-> "none", view |-> 0, comp |-> 0, err |-> 0, threw |-> {},
           logged |-> 0]

\* View graphs over WalkViews: any parent references, cycles included,
\* and any set of views whose binding context carries a _component (the
\* component of view v is written v).  A walk records the view it began
\* at, the arguments of the current invocation, how many invocations
\* examined a view, and how it ended.
WalkViews == 1..MaxWalkViews
NoWalk == [parent |-> <<>>, component |-> <<>>, from |-> 0, view |-> 0,
           maxIterations |-> 0, examined |-> 0, status |-> "idle", ret |-> 0]
WalkGraphs ==
    {[NoWalk EXCEPT !.parent = p,
                    !.component = [v \in WalkViews |-> IF v \in m THEN v ELSE Undef]] :
        p \in [WalkViews -> WalkViews \cup {0}], m \in SUBSET WalkViews}

\* Names and values that application code passes to get and set
AccessNames == {"x"}
AccessValues == {1, 2}

NoOut == [op |-> "none", comp |-> 0, name |-> "", value |-> 0, ret |-> 0,
          err |-> 0, args |-> <<>>]
NoHost == [out |-> NoOut, modals |-> <<>>, showModal |-> <<>>,
           navigate |-> <<>>, closed |-> <<>>]

Start ==
    /\ host = NoHost
    /\ comps = <<>>
    /\ instances = [cls \in Classes |-> <<>>]
    /\ fns = [i \in 1..4 |-> [kind |-> "proto", orig |-> 0, self |-> 0,
                              child |-> 0, wasCalled |-> FALSE,
                              returnValue |-> Undef]]
    /\ ctxs = <<>>
    /\ bc = [v \in Views |-> 0]
    /\ unloadH = [v \in Views |-> 0]
    /\ pageSubs = <<>>
    /\ pending = {}
    /\ snap = 0
    /\ isLoaded = FALSE
    /\ promises = <<>>
    /\ conts = {}
    /\ initLog = <<>>
    /\ hookLog = <<>>
    /\ last = NoLast
    /\ cnt = [hooks |-> 0, modals |-> 0, loads |-> 0, unloads |-> 0,
              calls |-> 0, writes |-> 0]

Init ==
    /\ Start
    /\ walk = NoWalk
    /\ classOf \in Layouts
    /\ lim = [hooks |-> MaxHooks, modals |-> MaxModals, loads |-> 0,
              unloads |-> MaxUnloads, calls |-> MaxCalls, writes |-> MaxWrites]

InitBinding ==
    /\ Start
    /\ walk = NoWalk
    /\ classOf \in BindingLayouts
    /\ lim = [hooks |-> BindHooks, modals |-> 0, loads |-> 0, unloads |-> 0,
              calls |-> BindCalls, writes |-> BindWrites]

InitWalk ==
    /\ Start
    /\ walk \in WalkGraphs
    /\ classOf \in BindingLayouts
    /\ lim = [hooks |-> 0, modals |-> 0, loads |-> 0, unloads |-> 0,
              calls |-> 0, writes |-> 0]

InitAttr ==
    /\ Start
    /\ walk = NoWalk
    /\ classOf \in AttrLayouts
    /\ lim = [hooks |-> AttrHooks, modals |-> 0, loads |-> 0, unloads |-> 0,
              calls |-> AttrCalls, writes |-> 0]

InitReload ==
    /\ Start
    /\ walk = NoWalk
    /\ classOf \in ReloadLayouts
    /\ lim = [hooks |-> ReloadHooks, modals |-> 0, loads |-> 0,
              unloads |-> ReloadUnloads, calls |-> 0, writes |-> 0]

InitTeardown ==
    /\ Start
    /\ walk = NoWalk
    /\ classOf \in ReloadLayouts
    /\ lim = [hooks |-> TearHooks, modals |-> 0, loads |-> TearLoads,
              unloads |-> TearUnloads, calls |-> 0, writes |-> 0]

InitLive ==
    /\ Start
    /\ walk = NoWalk
    /\ classOf \in BindingLayouts
    /\ lim = [hooks |-> LiveHooks, modals |-> 0, loads |-> LiveLoads,
              unloads |-> 0, calls |-> 0, writes |-> 0]

InitAccess ==
    /\ Start
    /\ walk = NoWalk
    /\ classOf \in ModalLayouts
    /\ lim = [hooks |-> AccHooks, modals |-> 0, loads |-> 0, unloads |-> 0,
              calls |-> AccCalls, writes |-> AccWrites]

InitModal ==
    /\ Start
    /\ walk = NoWalk
    /\ classOf \in ModalLayouts
    /\ lim = [hooks |-> ModHooks, modals |-> ModModals, loads |-> 0,
              unloads |-> 0, calls |-> ModCalls, writes |-> 0]

InitOrder ==
    /\ Start
    /\ walk = NoWalk
    /\ classOf \in OrderLayouts
    /\ lim = [hooks |-> OrdHooks, modals |-> 0, loads |-> OrdLoads,
              unloads |-> 0, calls |-> 0, writes |-> 0]

\* A reaction whose promise has settled runs before the host delivers the
\* next event.
Runnable == \E k \in conts : promises[k.on].st # "pending"

\* What the inits that an operation can reach do: the init of component c
\* and, through the wrappers installed so far, those of the wrappers'
\* children.  No other init runs, and those are left at "ok".
ReachFrom(view) ==
    {view} \cup
    {comps[fns[f].child].view : f \in {g \in 1..Len(fns) : fns[g].kind = "wrap"}}

Reach(c) == ReachFrom(comps[c].view)

KindsFor(S) ==
    {[v \in CompViews |-> IF v \in S THEN g[v] ELSE "ok"] : g \in [S -> InitKinds]}

\* The host calls an init-hook export of the view's module.
InitHookCall(view, methodName) ==
    /\ ~Runnable
    /\ IsComponentView(view)
    /\ cnt.hooks < lim.hooks
    /\ methodName = "onShownModally" => cnt.modals < lim.modals
    /\ \E kinds \in KindsFor(IF view = PageV /\ isLoaded THEN ReachFrom(view) ELSE {}) :
        \E r \in {InitHookProxy(World, classOf[view], methodName, view,
                                isLoaded, kinds)} :
           /\ Commit(r.w)
           /\ last' = [op |-> "hook", view |-> view, comp |-> r.ret,
                       err |-> r.err, threw |-> r.w.threw, logged |-> r.w.logged]
    /\ cnt' = [cnt EXCEPT !.hooks = @ + 1,
                          !.modals = IF methodName = "onShownModally"
                                     THEN @ + 1 ELSE @]
    /\ hookLog' = Append(hookLog, view)
    /\ UNCHANGED <<classOf, lim, host, walk, snap, pending, isLoaded>>

\* The page's `loaded` event starts: every listener is to be notified.
PageLoaded ==
    /\ ~Runnable
    /\ pending = {}
    /\ cnt.loads < lim.loads
    /\ isLoaded' = TRUE
    /\ pending' = 1..Len(pageSubs)
    /\ snap' = Len(pageSubs)
    /\ cnt' = [cnt EXCEPT !.loads = @ + 1]
    /\ last' = [NoLast EXCEPT !.op = "load", !.view = PageV]
    /\ UNCHANGED <<classOf, lim, host, walk, comps, instances, fns, ctxs, bc, unloadH,
                   pageSubs, promises, conts, initLog, hookLog>>

\* One listener of the page's `loaded` event is notified.
FireHandler(i) ==
    /\ ~Runnable
    /\ Len(initLog) < MaxInits
    /\ i \in pending
    /\ pending' = pending \ {i}
    /\ UNCHANGED <<classOf, lim, host, walk, snap, hookLog, isLoaded, cnt>>
    /\ \E kinds \in KindsFor(Reach(pageSubs[i])) :
        \E r \in {OnPageLoaded(World, pageSubs[i], kinds)} :
           /\ Commit(r.w)
           /\ last' = [op |-> "handler", view |-> comps[pageSubs[i]].view,
                       comp |-> pageSubs[i], err |-> r.err,
                       threw |-> r.w.threw, logged |-> r.w.logged]

\* A view's `unloaded` event: its listeners run one after the other.
Unloaded(view) ==
    /\ ~Runnable
    /\ IsComponentView(view)
    /\ cnt.unloads < lim.unloads
    /\ \E w \in {NotifyUnloaded(World, classOf[view], view, unloadH[view])} :
          /\ Commit(w)
          /\ last' = [op |-> "unloaded", view |-> view, comp |-> 0, err |-> 0,
                      threw |-> {}, logged |-> w.logged]
    /\ isLoaded' = IF view = PageV THEN FALSE ELSE isLoaded
    /\ cnt' = [cnt EXCEPT !.unloads = @ + 1]
    /\ UNCHANGED <<classOf, lim, host, walk, snap, hookLog, pending>>

\* The module whose exports the events of a view are bound to: the module
\* of the component whose template declares the view.
RECURSIVE ModuleOf(_)
ModuleOf(view) ==
    IF view = 0 THEN ""
    ELSE IF classOf[view] # "" THEN classOf[view]
    ELSE ModuleOf(Parent[view])

\* The host calls a plain-method export of the view's module.
MethodCall(view, name, value) ==
    /\ ~Runnable
    /\ ModuleOf(view) # ""
    /\ cnt.calls < lim.calls
    /\ \E r \in {MethodProxy(World, ModuleOf(view), view, name, value)} :
          /\ Commit(r.w)
          /\ last' = [op |-> "method", view |-> view, comp |-> r.ret,
                      err |-> r.err, threw |-> {}, logged |-> r.w.logged]
    /\ cnt' = [cnt EXCEPT !.calls = @ + 1]
    /\ UNCHANGED <<classOf, lim, host, walk, snap, hookLog, pending, isLoaded>>

\* Application code assigns component.bindingContext a new object.
SetBindingContext(c) ==
    /\ ~Runnable
    /\ cnt.writes < lim.writes
    /\ c \in 1..Len(comps)
    /\ Tracked(World, c)
    /\ ctxs' = Append(ctxs, NewPlainObject)
    /\ bc' = [bc EXCEPT ![comps[c].view] = Len(ctxs) + 1]
    /\ last' = [NoLast EXCEPT !.op = "write", !.view = comps[c].view, !.comp = c]
    /\ cnt' = [cnt EXCEPT !.writes = @ + 1]
    /\ UNCHANGED <<classOf, lim, host, walk, snap, hookLog, comps, instances, fns, unloadH, pageSubs, pending,
                   isLoaded, promises, conts, initLog>>

\* Application code assigns component.bindingContext = undefined, on a
\* view whose parent has no binding context to inherit.
ClearBindingContext(c) ==
    /\ ~Runnable
    /\ cnt.writes < lim.writes
    /\ c \in 1..Len(comps)
    /\ Tracked(World, c)
    /\ bc[comps[c].view] # Undef
    /\ ViewBindingContext(bc, Parent[comps[c].view]) = Undef
    /\ bc' = [bc EXCEPT ![comps[c].view] = Undef]
    /\ last' = [NoLast EXCEPT !.op = "clear", !.view = comps[c].view, !.comp = c]
    /\ cnt' = [cnt EXCEPT !.writes = @ + 1]
    /\ UNCHANGED <<classOf, lim, host, walk, snap, hookLog, comps, instances, fns, ctxs,
                   unloadH, pageSubs, pending, isLoaded, promises, conts,
                   initLog>>

\* A promise returned by a user's init settles.
Settle(p, outcome) ==
    /\ ~Runnable
    /\ p \in 1..Len(promises)
    /\ promises[p].user
    /\ promises[p].st = "pending"
    /\ promises' = [promises EXCEPT ![p].st = outcome]
    /\ last' = [NoLast EXCEPT !.op = "settle", !.comp = p]
    /\ UNCHANGED <<classOf, lim, host, walk, snap, hookLog, comps, instances, fns, ctxs, bc, unloadH, pageSubs,
                   pending, isLoaded, conts, initLog, cnt>>

\* A reaction registered on a settled promise runs.
RunReaction(k) ==
    /\ k \in conts
    /\ Len(initLog) < MaxInits
    /\ promises[k.on].st # "pending"
    /\ UNCHANGED <<classOf, lim, host, walk, snap, hookLog, pending, isLoaded, cnt>>
    /\ IF k.kind = "follow"
       THEN /\ promises' = [promises EXCEPT ![k.out].st = promises[k.on].st]
            /\ conts' = conts \ {k}
            /\ last' = [NoLast EXCEPT !.op = "reaction"]
            /\ UNCHANGED <<comps, instances, fns, ctxs, bc, unloadH, pageSubs,
                           initLog>>
       ELSE \E kinds \in KindsFor(Reach(k.comp)) :
            \E r \in {CallPublicInitHook([World EXCEPT !.conts = conts \ {k}],
                                          k.comp, kinds, 1)} :
               /\ Commit(IF r.err # 0
                         THEN [r.w EXCEPT !.promises[k.out].st = "rejected"]
                         ELSE IF IsPromise(r.ret)
                         THEN [r.w EXCEPT !.conts = r.w.conts \cup
                                  {[on |-> r.ret, kind |-> "follow", comp |-> 0,
                                    out |-> k.out]}]
                         ELSE [r.w EXCEPT !.promises[k.out].st = "resolved"])
               /\ last' = [op |-> "reaction", view |-> comps[k.comp].view,
                           comp |-> k.comp, err |-> r.err, threw |-> r.w.threw,
                           logged |-> 0]

\* The registry and dispatch: every operation of the ComponentManager and
\* the events that reach it.  The notification of the page's `loaded`
\* listeners touches neither the registry nor a binding context.
Next ==
    \/ \E view \in CompViews : \E methodName \in HookNames :
           InitHookCall(view, methodName)
    \/ \E view \in CompViews : Unloaded(view)
    \/ \E view \in CompViews : \E value \in UserValues :
           MethodCall(view, "x", value)
    \/ \E c \in 1..Len(comps) : SetBindingContext(c)
    \/ \E c \in 1..Len(comps) : ClearBindingContext(c)

Spec == Init /\ [][Next]_vars

\* Binding contexts: lifecycle hooks, calls of a method that sets a
\* property, and assignments of a new binding context.
NextBinding ==
    \/ \E view \in CompViews : \E methodName \in HookNames \ {"onShownModally"} :
           InitHookCall(view, methodName)
    \/ \E view \in CompViews : \E value \in UserValues :
           MethodCall(view, "x", value)
    \/ \E c \in 1..Len(comps) : SetBindingContext(c)

SpecBinding == InitBinding /\ [][NextBinding]_vars

\* The host evaluates an expression attribute of a view that still inherits
\* its binding context: the value is set on that context under the
\* attribute's name, as _internalInit expects to find it.
BindExpression(view, n) ==
    /\ ~Runnable
    /\ Expression(view, n) # ""
    /\ bc[view] = Undef
    /\ ViewBindingContext(bc, view) # Undef
    /\ \E orig \in {ViewBindingContext(bc, view)} :
          /\ ctxs[orig].p[Expression(view, n)] # Undef
          /\ ctxs[orig].p[n] # ctxs[orig].p[Expression(view, n)]
          /\ ctxs' = [ctxs EXCEPT ![orig].p[n] = ctxs[orig].p[Expression(view, n)]]
    /\ last' = [NoLast EXCEPT !.op = "bind", !.view = view]
    /\ UNCHANGED <<classOf, lim, host, walk, snap, hookLog, comps, instances, fns,
                   bc, unloadH, pageSubs, pending, isLoaded, promises, conts,
                   initLog, cnt>>

\* XML attributes: lifecycle hooks, the host's evaluation of expression
\* attributes, and calls of a method that sets a property.
NextAttr ==
    \/ \E view \in CompViews : \E methodName \in HookNames \ {"onShownModally"} :
           InitHookCall(view, methodName)
    \/ \E view \in CompViews : \E name \in AttrMethodNames :
           \E value \in AttrValues : MethodCall(view, name, value)
    \/ \E view \in CompViews : \E n \in AttrNames : BindExpression(view, n)

SpecAttr == InitAttr /\ [][NextAttr]_vars

\* The component classes of the application
LayoutClasses == {classOf[view] : view \in CompViews} \ {""}

\* Application code constructs a controller itself: new ComponentClass().
\* No view is recorded and the manager does not track it.
Construct(cls) ==
    /\ ~Runnable
    /\ Cardinality({c \in 1..Len(comps) : comps[c].view = Undef}) < MaxConstructed
    /\ comps' = Append(comps, [id |-> Undef, view |-> Undef,
                               init |-> ProtoFn(cls), cls |-> cls,
                               modalContext |-> Undef,
                               closeModalCallback |-> Undef])
    /\ last' = [NoLast EXCEPT !.op = "new", !.comp = Len(comps) + 1]
    /\ UNCHANGED <<classOf, lim, host, walk, snap, hookLog, instances, fns,
                   ctxs, bc, unloadH, pageSubs, pending, isLoaded, promises,
                   conts, initLog, cnt>>

\* A direct call on controller c has returned or thrown.
Called(c, out) ==
    /\ host' = [host EXCEPT !.out = out]
    /\ last' = [NoLast EXCEPT !.op = "api", !.comp = c, !.view = comps[c].view]
    /\ cnt' = [cnt EXCEPT !.calls = @ + 1]
    /\ UNCHANGED <<classOf, lim, walk, snap, hookLog, pending, isLoaded>>

\* Application code calls component.set(name, value).
SetCall(c, name, value) ==
    /\ ~Runnable
    /\ c \in 1..Len(comps)
    /\ cnt.calls < lim.calls
    /\ \E r \in {ComponentSet(World, c, name, value)} :
          /\ Commit(r.w)
          /\ Called(c, [op |-> "set", comp |-> c, name |-> name,
                        value |-> value, ret |-> r.ret, err |-> r.err,
                        args |-> <<>>])

\* Application code calls component.get(name).
GetCall(c, name) ==
    /\ ~Runnable
    /\ c \in 1..Len(comps)
    /\ cnt.calls < lim.calls
    /\ \E r \in {ComponentGet(World, c, name)} :
          /\ Commit(r.w)
          /\ Called(c, [op |-> "get", comp |-> c, name |-> name,
                        value |-> Undef, ret |-> r.ret, err |-> r.err,
                        args |-> <<>>])

\* Application code reads component.bindingContext.
BindingContextRead(c) ==
    /\ ~Runnable
    /\ c \in 1..Len(comps)
    /\ cnt.calls < lim.calls
    /\ \E r \in {BindingContextGetter(World, c)} :
          /\ Commit(r.w)
          /\ Called(c, [op |-> "bindingContext", comp |-> c, name |-> "",
                        value |-> Undef, ret |-> r.ret, err |-> r.err,
                        args |-> <<>>])

\* get, set and bindingContext called on controllers the manager created
\* or the application constructed, between lifecycle hooks and assignments
\* of the binding context.
NextAccess ==
    \/ \E view \in CompViews : \E methodName \in {"onLoaded"} :
           InitHookCall(view, methodName)
    \/ \E cls \in LayoutClasses : Construct(cls)
    \/ \E c \in 1..Len(comps) : SetBindingContext(c)
    \/ \E c \in 1..Len(comps) : ClearBindingContext(c)
    \/ \E c \in 1..Len(comps) : \E name \in AccessNames :
           \E value \in AccessValues : SetCall(c, name, value)
    \/ \E c \in 1..Len(comps) : \E name \in AccessNames : GetCall(c, name)
    \/ \E c \in 1..Len(comps) : BindingContextRead(c)

SpecAccess == InitAccess /\ [][NextAccess]_vars

\* A direct call on controller c that touches no component state has
\* returned or thrown, leaving the host record h.
CalledHost(c, h, out) ==
    /\ host' = [h EXCEPT !.out = out]
    /\ last' = [NoLast EXCEPT !.op = "api", !.comp = c, !.view = comps[c].view]
    /\ cnt' = [cnt EXCEPT !.calls = @ + 1]
    /\ UNCHANGED <<classOf, lim, walk, snap, hookLog, pending, isLoaded, comps,
                   instances, fns, ctxs, bc, unloadH, pageSubs, promises,
                   conts, initLog>>

\* Application code calls component.showModal(options).
ShowModalCall(c, options) ==
    /\ ~Runnable
    /\ c \in 1..Len(comps)
    /\ cnt.calls < lim.calls
    /\ CalledHost(c, ShowModal(host, options),
                  [NoOut EXCEPT !.op = "showModal", !.comp = c,
                                !.ret = Len(host.modals) + 1])

\* The reaction registered by showModal runs.
ShowModalReactionRun(i) ==
    /\ i \in 1..Len(host.modals)
    /\ host.modals[i].stage \in {"valid", "invalid"}
    /\ host' = ShowModalReaction(host, i)
    /\ last' = [NoLast EXCEPT !.op = "reaction"]
    /\ UNCHANGED <<classOf, lim, walk, snap, hookLog, pending, isLoaded, comps,
                   instances, fns, ctxs, bc, unloadH, pageSubs, promises,
                   conts, initLog, cnt>>

\* The modal invokes the callback passed to the page's showModal, once.
CallbackCall(n, err, ret) ==
    /\ n \in 1..Len(host.showModal)
    /\ host.modals[host.showModal[n].callback].cb = << >>
    /\ host' = Callback(host, host.showModal[n].callback, err, ret)
    /\ last' = [NoLast EXCEPT !.op = "callback"]
    /\ UNCHANGED <<classOf, lim, walk, snap, hookLog, pending, isLoaded, comps,
                   instances, fns, ctxs, bc, unloadH, pageSubs, promises,
                   conts, initLog, cnt>>

\* The promise showModal returned takes the state of the settled promise
\* its reaction returned.
FollowRun(i) ==
    /\ i \in 1..Len(host.modals)
    /\ host.modals[i].inner.st # "pending"
    /\ host.modals[i].outer.st = "pending"
    /\ host' = Follow(host, i)
    /\ last' = [NoLast EXCEPT !.op = "reaction"]
    /\ UNCHANGED <<classOf, lim, walk, snap, hookLog, pending, isLoaded, comps,
                   instances, fns, ctxs, bc, unloadH, pageSubs, promises,
                   conts, initLog, cnt>>

\* Application code calls component.closeModal(...args).
CloseModalCall(c, args) ==
    /\ ~Runnable
    /\ c \in 1..Len(comps)
    /\ cnt.calls < lim.calls
    /\ \E r \in {CloseModal(World, host, c, args)} :
          CalledHost(c, r.h, [NoOut EXCEPT !.op = "closeModal", !.comp = c,
                                          !.ret = r.ret, !.err = r.err,
                                          !.args = args])

\* Application code calls component.navigate(...args).
NavigateCall(c, args) ==
    /\ ~Runnable
    /\ c \in 1..Len(comps)
    /\ cnt.calls < lim.calls
    /\ CalledHost(c, Navigate(host, args),
                  [NoOut EXCEPT !.op = "navigate", !.comp = c, !.args = args])

\* Modals and navigation: lifecycle hooks, onShownModally among them,
\* showModal with its reaction and the modal's callback, closeModal and
\* navigate.
NextModal ==
    \/ \E view \in CompViews : \E methodName \in {"onLoaded", "onShownModally"} :
           InitHookCall(view, methodName)
    \/ \E c \in 1..Len(comps) : \E options \in ModalOptions :
           ShowModalCall(c, options)
    \/ \E i \in 1..Len(host.modals) : ShowModalReactionRun(i)
    \/ \E n \in 1..Len(host.showModal) : \E a \in CallbackArgs :
           CallbackCall(n, a[1], a[2])
    \/ \E i \in 1..Len(host.modals) : FollowRun(i)
    \/ \E c \in 1..Len(comps) : \E args \in CloseArgs : CloseModalCall(c, args)
    \/ \E c \in 1..Len(comps) : \E args \in NavigateArgs : NavigateCall(c, args)

SpecModal == InitModal /\ [][NextModal]_vars

\* Views that are loaded and unloaded again and again: lifecycle hooks
\* and `unloaded` events.
NextReload ==
    \/ \E view \in CompViews : \E methodName \in HookNames \ {"onShownModally"} :
           InitHookCall(view, methodName)
    \/ \E view \in CompViews : Unloaded(view)

SpecReload == InitReload /\ [][NextReload]_vars

\* Views that are unloaded while the page lives on: lifecycle hooks,
\* `unloaded` events, the page's `loaded` event and its listeners, and
\* the promises returned by inits.  The host notifies the listeners of
\* one `loaded` event in one synchronous loop: no hook and no `unloaded`
\* event arrives before the last of them has been notified.
HookBetweenEvents(view) ==
    /\ pending = {}
    /\ InitHookCall(view, "onLoaded")

UnloadedBetweenEvents(view) ==
    /\ pending = {}
    /\ Unloaded(view)

NextTeardown ==
    \/ \E view \in CompViews : HookBetweenEvents(view)
    \/ \E view \in CompViews : UnloadedBetweenEvents(view)
    \/ PageLoaded
    \/ \E i \in pending : FireHandler(i)
    \/ \E p \in 1..Len(promises) : \E outcome \in {"resolved", "rejected"} :
           Settle(p, outcome)
    \/ \E k \in conts : RunReaction(k)

SpecTeardown == InitTeardown /\ [][NextTeardown]_vars

\* Progress of the init ordering protocol, for the controllers whose
\* lifecycle hooks ran before the page's `loaded` event.  The host notifies every
\* listener of an event it has started to dispatch, and the engine runs
\* every reaction of a settled promise; whether a promise returned by a
\* user's init ever settles is up to the application.
\* Each view's template connects one hook, which runs when the view is
\* loaded, before the page fires `loaded`.
HookBeforeLoaded(view) ==
    /\ cnt.loads = 0
    /\ \A i \in 1..Len(hookLog) : hookLog[i] # view
    /\ InitHookCall(view, "onLoaded")

NextLive ==
    \/ \E view \in CompViews : HookBeforeLoaded(view)
    \/ PageLoaded
    \/ \E i \in pending : FireHandler(i)
    \/ \E p \in 1..Len(promises) : \E outcome \in {"resolved", "rejected"} :
           Settle(p, outcome)
    \/ \E k \in conts : RunReaction(k)

\* The step of FireHandler, told by its guard and its effect on the
\* dispatch in progress: no other action takes a listener out of `pending`.
Notify ==
    /\ ~Runnable
    /\ Len(initLog) < MaxInits
    /\ \E i \in pending : pending' = pending \ {i}

SpecLive ==
    /\ InitLive
    /\ [][NextLive]_vars
    /\ WF_pending(Notify)
    /\ WF_vars(\E k \in conts : RunReaction(k))

\* getComponentForView(view) is called on the given view graph, with the
\* default maxIterations.
GetComponentForViewCall(view) ==
    /\ walk.parent # <<>>
    /\ walk.status = "idle"
    /\ walk' = [walk EXCEPT !.from = view, !.view = view,
                            !.maxIterations = MaxIterations,
                            !.status = "running"]
    /\ UNCHANGED <<classOf, lim, host, comps, instances, fns, ctxs, bc, unloadH,
                   pageSubs, snap, pending, isLoaded, promises, conts,
                   initLog, hookLog, last, cnt>>

\* The current invocation of getComponentForView runs its body.
GetComponentForViewStep ==
    /\ walk.status = "running"
    /\ \E s \in {WalkStep(walk.parent, walk.component, walk.view,
                           walk.maxIterations)} :
          walk' = [walk EXCEPT
                      !.view = s.view,
                      !.maxIterations = s.maxIterations,
                      !.examined = IF s.kind = "throw" THEN @ ELSE @ + 1,
                      !.status = CASE s.kind = "call" -> "running"
                                   [] s.kind = "throw" -> "threw"
                                   [] OTHER -> "returned",
                      !.ret = s.ret]
    /\ UNCHANGED <<classOf, lim, host, comps, instances, fns, ctxs, bc, unloadH,
                   pageSubs, snap, pending, isLoaded, promises, conts,
                   initLog, hookLog, last, cnt>>

\* getComponentForView as a function of the view graph.
NextWalk ==
    \/ \E view \in WalkViews : GetComponentForViewCall(view)
    \/ GetComponentForViewStep

SpecWalk == InitWalk /\ [][NextWalk]_vars

\* The init ordering protocol: lifecycle hooks, the page's `loaded` event,
\* its listeners in any order, and the promises returned by inits.
NextOrder ==
    \/ \E view \in CompViews : \E methodName \in HookNames \ {"onShownModally"} :
           InitHookCall(view, methodName)
    \/ PageLoaded
    \/ \E i \in pending : FireHandler(i)
    \/ \E p \in 1..Len(promises) : \E outcome \in {"resolved", "rejected"} :
           Settle(p, outcome)
    \/ \E k \in conts : RunReaction(k)

SpecOrder == InitOrder /\ [][NextOrder]_vars

\* ------------------------------------------------------------ claims
Comps == 1..Len(comps)
RootView(c) == comps[c].view
LiveComps == {c \in Comps : Tracked(World, c)}
WasInited(c) == Inited(initLog, c)

\* The page's `loaded` event has fired, every listener it had to notify
\* has been notified, no lifecycle hook ran since it fired, and no
\* reaction is waiting to run.
DispatchDone ==
    /\ cnt.loads > 0
    /\ pending = {}
    /\ snap = Len(pageSubs)
    /\ ~Runnable

Subscribed(c) == \E i \in 1..snap : pageSubs[i] = c

\* A promise returned by an init of component a has not settled.
InitPending(a) ==
    \E i \in 1..Len(initLog) :
        /\ initLog[i].c = a
        /\ initLog[i].p # 0
        /\ promises[initLog[i].p].st = "pending"

InitFailed(a) ==
    \E i \in 1..Len(initLog) :
        /\ initLog[i].c = a
        /\ \/ initLog[i].kind = "throw"
           \/ initLog[i].p # 0 /\ promises[initLog[i].p].st = "rejected"

AncestorsOf(d) == {a \in LiveComps : IsAncestor(RootView(a), RootView(d))}

\* The host connected one lifecycle hook per controller, and every hook ran
\* before the page's `loaded` event fired.
OneHookEachBeforeLoaded ==
    /\ snap = Len(pageSubs)
    /\ cnt.hooks = Len(pageSubs)
    /\ \A i, j \in 1..Len(pageSubs) : pageSubs[i] = pageSubs[j] => i = j
    /\ \A c \in LiveComps : Subscribed(c)

\* C1: whenever an init is invoked, the init of every controller whose root
\* view is an ancestor of the invoked controller's root view has been
\* invoked before (here for the orders in which every hook ran, once,
\* before the `loaded` event; its listeners are notified in any order).
C1_OuterInitFirst ==
    OneHookEachBeforeLoaded =>
        \A i \in 1..Len(initLog) : initLog[i].early = {}

\* C2: whenever an init is invoked, no promise returned by the init of a
\* controller of an ancestor view is still pending (same orders as C1).
C2_AncestorPromiseSettled ==
    OneHookEachBeforeLoaded =>
        \A i \in 1..Len(initLog) : initLog[i].waits = {}

\* C8: when the init of the controller whose listener or lifecycle hook the
\* host called throws, the error reaches the host.
C8_InitErrorReachesCaller ==
    (last.op \in {"handler", "hook"} /\ last.comp \in last.threw)
        => last.err = last.comp

\* C9: once the `loaded` event has been dispatched, a controller with a
\* failed ancestor init and no ancestor promise pending has had its init
\* invoked.
C9_InitAfterAncestorFailure ==
    DispatchDone =>
        \A d \in LiveComps :
            (/\ Subscribed(d)
             /\ \E a \in AncestorsOf(d) : InitFailed(a)
             /\ \A a \in AncestorsOf(d) : ~InitPending(a))
            => WasInited(d)

\* C10: once the `loaded` event has been dispatched, every bound controller
\* none of whose ancestors returned a promise that is still pending has had
\* its init invoked.
C10_PendingInitBlocksOnlyDescendants ==
    DispatchDone =>
        \A d \in LiveComps :
            (Subscribed(d) /\ \A a \in AncestorsOf(d) : ~InitPending(a))
            => WasInited(d)

NonSingletonClasses == {cls \in Classes : ~IsSingleton(cls)}
Registry(cls) == instances[cls]
RegistrySet(cls) == {instances[cls][i] : i \in 1..Len(instances[cls])}
HookedViews(cls) ==
    {hookLog[i] : i \in {j \in 1..Len(hookLog) : classOf[hookLog[j]] = cls}}
HookCalls(cls) ==
    Cardinality({j \in 1..Len(hookLog) : classOf[hookLog[j]] = cls})

\* C3: after the init-hook exports of a non-singleton class were called
\* once each for N distinct views (and nothing was unloaded or reassigned),
\* its registry holds N instances with pairwise different identifiers, one
\* per view.
C3_OneInstancePerView ==
    \A cls \in NonSingletonClasses :
        (/\ cnt.unloads = 0
         /\ cnt.writes = 0
         /\ HookCalls(cls) = Cardinality(HookedViews(cls)))
        => /\ Len(Registry(cls)) = HookCalls(cls)
           /\ \A i, j \in 1..Len(Registry(cls)) :
                  i # j => /\ Registry(cls)[i] # Registry(cls)[j]
                           /\ comps[Registry(cls)[i]].id # comps[Registry(cls)[j]].id
                           /\ RootView(Registry(cls)[i]) # RootView(Registry(cls)[j])
           /\ {RootView(c) : c \in RegistrySet(cls)} = HookedViews(cls)

\* The tracked controller of a view: the entry of the registry of the
\* view's class whose root view is the view and whose identifier is the
\* marker on the view's binding context.
ControllerOf(view) ==
    {c \in RegistrySet(classOf[view]) :
        /\ RootView(c) = view
        /\ ViewBindingContext(bc, view) # Undef
        /\ ctxs[ViewBindingContext(bc, view)].p["_componentId"] = comps[c].id}

Without(s, c) == SelectSeq(s, LAMBDA x : x # c)

\* C4: the unloaded event of a view whose controller is tracked in a
\* non-singleton registry removes exactly that controller; the other
\* entries stay, in the same order, and no other registry changes.
C4_UnloadedRemovesExactlyOne ==
    [][\A view \in CompViews :
          (/\ cnt'.unloads = cnt.unloads + 1
           /\ last'.view = view
           /\ ~IsSingleton(classOf[view]))
          => \A c \in ControllerOf(view) :
                 /\ instances'[classOf[view]] = Without(instances[classOf[view]], c)
                 /\ \A cls \in Classes \ {classOf[view]} :
                        instances'[cls] = instances[cls]]_vars

C4_Witness ==
    /\ last.op = "unloaded"
    /\ ~IsSingleton(classOf[last.view])
    /\ unloadH[last.view] > 0
    /\ last.logged = 0
    /\ cnt.hooks = 2
    /\ Len(comps) = 2
    /\ comps[2].view = last.view
    /\ instances[classOf[last.view]] = <<1>>

\* C5: a singleton class has at most one instance; every init-hook export
\* call, and every plain-method export call made once the instance exists,
\* is forwarded to it; and no step removes or replaces it.
SingletonClasses == {cls \in Classes : IsSingleton(cls)}
C5_SingletonState ==
    \A cls \in SingletonClasses :
        /\ Len(instances[cls]) <= 1
        /\ (last.op = "hook" /\ classOf[last.view] = cls)
               => (Len(instances[cls]) = 1 /\ last.comp = instances[cls][1])
        /\ (last.op = "method" /\ ModuleOf(last.view) = cls /\ Len(instances[cls]) = 1)
               => last.comp = instances[cls][1]
C5_SingleInstance ==
    /\ []C5_SingletonState
    /\ [][\A cls \in SingletonClasses :
             instances[cls] # <<>> => instances'[cls] = instances[cls]]_vars

C5_Witness ==
    /\ Len(instances["S"]) = 1
    /\ cnt.hooks = 2
    /\ cnt.unloads = 1
    /\ last.op = "method"
    /\ last.comp = instances["S"][1]
    /\ Cardinality(HookedViews("S")) = 2

\* C6: no two entries of a class's registry have the same root view.
C6_OneControllerPerRootView ==
    \A cls \in Classes : \A i, j \in 1..Len(instances[cls]) :
        RootView(instances[cls][i]) = RootView(instances[cls][j]) => i = j

\* Two tracked controllers of one non-singleton class whose root views are
\* different children of one parent view.
Siblings(c1, c2) ==
    /\ c1 \in LiveComps /\ c2 \in LiveComps
    /\ comps[c1].cls = comps[c2].cls
    /\ ~IsSingleton(comps[c1].cls)
    /\ RootView(c1) # RootView(c2)
    /\ Parent[RootView(c1)] = Parent[RootView(c2)]

ParentContext(c) == ViewBindingContext(bc, Parent[RootView(c)])
ValueOf(cs, ctx, name) == IF ctx = Undef THEN Undef ELSE cs[ctx].p[name]

\* C7: the binding contexts of two sibling controllers of one class are
\* different objects, both different from the parent's context, and a
\* set(name, v) forwarded to one of them changes neither what get(name)
\* returns on the other nor what the parent's context holds.
C7_SiblingContexts ==
    \A c1, c2 \in Comps : Siblings(c1, c2) =>
        /\ CompBindingContext(World, c1) # Undef
        /\ CompBindingContext(World, c1) # CompBindingContext(World, c2)
        /\ CompBindingContext(World, c1) # ParentContext(c1)
C7_SiblingsDoNotAlias ==
    /\ []C7_SiblingContexts
    /\ [][\A c1, c2 \in Comps :
             (Siblings(c1, c2) /\ last'.op = "method" /\ last'.comp = c1
              /\ cnt'.calls = cnt.calls + 1)
             => /\ ValueOf(ctxs', CompBindingContext(World, c2), "x")
                     = ValueOf(ctxs, CompBindingContext(World, c2), "x")
                /\ ValueOf(ctxs', ParentContext(c1), "x")
                     = ValueOf(ctxs, ParentContext(c1), "x")]_vars

C7_Witness ==
    /\ last.op = "method"
    /\ last.err = 0
    /\ \E c2 \in Comps :
          /\ Siblings(last.comp, c2)
          /\ ParentContext(c2) # Undef
          /\ CompGet(World, last.comp, "x") # CompGet(World, c2, "x")

\* The latest operation was a call of a plain-method export of class cls.
MethodCalled(cls) == last.op = "method" /\ ModuleOf(last.view) = cls

\* C11: a plain-method export of a singleton class called before any
\* instance of the class exists raises an error to the caller (and no
\* controller method is invoked).
C11_SingletonMethodBeforeInstanceThrows ==
    \A cls \in SingletonClasses :
        (MethodCalled(cls) /\ instances[cls] = <<>>)
            => (last.err # 0 /\ last.comp = 0)

\* C12: a plain-method export of a non-singleton class called for a view
\* whose nearest marker refers to a controller that was removed from the
\* registry fails with an error; the method is not invoked on the removed
\* controller.
C12_MethodOnRemovedControllerThrows ==
    \A cls \in NonSingletonClasses :
        (MethodCalled(cls) /\ last.comp \in Comps /\ last.comp \notin LiveComps)
            => last.err # 0

\* The view and the views on its parent chain.
ChainOf(view) == {view} \cup {a \in Views : IsAncestor(a, view)}

\* The view's own binding context carries a marker.
CarriesMarker(view) ==
    /\ bc[view] # Undef
    /\ \/ ctxs[bc[view]].p["_component"] # Undef
       \/ ctxs[bc[view]].p["_componentId"] # Undef

\* C13: a plain-method export of a non-singleton class called for a view
\* such that neither it nor any view on its parent chain has a binding
\* context carrying the marker throws to the caller; no controller method
\* is invoked (no binding context changes).
C13_MethodWithoutMarkerThrows ==
    [][\A view \in Views :
          (/\ cnt'.calls = cnt.calls + 1
           /\ last'.view = view
           /\ ModuleOf(view) \in NonSingletonClasses
           /\ \A u \in ChainOf(view) : ~CarriesMarker(u))
          => /\ last'.err = -1
             /\ last'.comp = 0
             /\ ctxs' = ctxs]_vars

C13_Witness ==
    /\ MethodCalled("A")
    /\ last.err = -1
    /\ last.comp = 0
    /\ cnt.hooks > 0
    /\ \A u \in ChainOf(last.view) : ~CarriesMarker(u)

\* The unloaded listener of the view would find nothing to remove: the
\* view has no binding context, or the context's marker id matches no
\* tracked instance of the class.
NothingToDeallocate(view) ==
    \/ ViewBindingContext(bc, view) = Undef
    \/ FindIndex(World, classOf[view],
                 GetComponentId(World, ViewBindingContext(bc, view))) = 0

\* C14: when the unloaded listener runs for a view that has no binding
\* context, or whose marker id matches no tracked instance, it throws
\* nothing and leaves the registry unchanged.
C14_UnloadedWithoutMatchKeepsRegistry ==
    [][\A view \in CompViews :
          (/\ cnt'.unloads = cnt.unloads + 1
           /\ last'.view = view
           /\ unloadH[view] > 0
           /\ NothingToDeallocate(view))
          => /\ instances' = instances
             /\ last'.err = 0
             /\ last'.logged = unloadH[view]]_vars

\* The listener ran on a view without binding context while a controller
\* was tracked.
C14_Witness ==
    /\ last.op = "unloaded"
    /\ last.logged > 0
    /\ ViewBindingContext(bc, last.view) = Undef
    /\ \E cls \in Classes : instances[cls] # <<>>

\* The view n parent references above view in the walked graph (0: none).
RECURSIVE NthParent(_, _)
NthParent(view, n) ==
    IF n = 0 \/ view = 0 THEN view
    ELSE NthParent(walk.parent[view], n - 1)

\* The hops at which a walk from walk.from stops: at a view whose context
\* carries a component, or at a view without parent.  A graph of
\* MaxWalkViews views has no path of more distinct views, so a walk that
\* does not stop within MaxWalkViews hops runs in a cycle of unmarked
\* views.
WalkStops ==
    {n \in 0..(MaxWalkViews - 1) :
        /\ NthParent(walk.from, n) # 0
        /\ \/ walk.component[NthParent(walk.from, n)] # Undef
           \/ walk.parent[NthParent(walk.from, n)] = 0}
FirstStop == CHOOSE n \in WalkStops : \A m \in WalkStops : n <= m
WalkEnded == walk.status \in {"returned", "threw"}

\* C15: getComponentForView terminates on every view graph, cyclic ones
\* included: every invocation uses up one of 500 iterations, so at most
\* 500 views are examined; it throws when no marker is found within that
\* bound, returns the component of the first marked view, and returns null
\* only at an unmarked view without parent.
C15_WalkIsBounded ==
    /\ walk.status = "running" =>
          /\ walk.maxIterations >= 0
          /\ walk.examined + walk.maxIterations = MaxIterations
    /\ WalkEnded =>
          /\ walk.examined <= MaxIterations
          /\ WalkStops = {} => (walk.status = "threw" /\ walk.examined = MaxIterations)
          /\ WalkStops # {} =>
                /\ walk.status = "returned"
                /\ walk.examined = FirstStop + 1
                /\ walk.ret = walk.component[NthParent(walk.from, FirstStop)]
          /\ (walk.status = "returned" /\ walk.ret = 0) =>
                /\ walk.parent[walk.view] = 0
                /\ walk.component[walk.view] = Undef

\* A walk in a cycle of unmarked views ended with the throw.
C15_Witness ==
    /\ walk.status = "threw"
    /\ walk.examined = MaxIterations
    /\ NthParent(walk.from, MaxWalkViews) # 0

\* The latest operation was an init-hook export call that returned.
HookReturned == last.op = "hook" /\ last.err = 0

\* C16: after an init-hook export call returns for a view, the view's
\* binding context carries the marker (_componentId and _component) of the
\* controller the call was forwarded to, for non-singleton and singleton
\* classes alike.
C16_HookLeavesMarker ==
    HookReturned =>
        /\ ViewBindingContext(bc, last.view) # Undef
        /\ ctxs[ViewBindingContext(bc, last.view)].p["_component"] = last.comp
        /\ ctxs[ViewBindingContext(bc, last.view)].p["_componentId"]
               = comps[last.comp].id

\* C17: during a lifecycle hook the view is assigned a new binding context
\* if and only if its context is undefined or is the same object as its
\* parent view's context; otherwise the context object it has is kept.
C17_NewContextIffInherited ==
    [][\A view \in CompViews :
          (cnt'.hooks = cnt.hooks + 1 /\ last'.view = view)
          => IF \/ ViewBindingContext(bc, view) = Undef
                \/ ViewBindingContext(bc, view)
                       = ViewBindingContext(bc, Parent[view])
             THEN /\ bc'[view] > Len(ctxs)
                  /\ bc'[view] <= Len(ctxs')
             ELSE /\ bc'[view] = bc[view]
                  /\ Len(ctxs') = Len(ctxs)]_vars

\* A second hook on a child of a hooked page kept the child's own context.
C17_Witness ==
    /\ last.op = "hook"
    /\ Len(hookLog) = 3
    /\ hookLog[1] = Parent[hookLog[2]]
    /\ hookLog[2] = hookLog[3]
    /\ Len(ctxs) = 2
    /\ bc[hookLog[3]] = 2
    /\ bc[hookLog[1]] = 1

\* C18: the binding steps of _internalInit run once per controller, at its
\* first lifecycle hook: a later hook forwarded to a controller that
\* already exists does not record the root view again and does not
\* register another listener of the page's loaded event.
C18_BindingRunsOnce ==
    [][\A c \in Comps :
          (cnt'.hooks = cnt.hooks + 1 /\ last'.comp = c)
          => /\ pageSubs' = pageSubs
             /\ comps'[c].view = comps[c].view]_vars

\* The host has bound the expression attributes of the view: each holds,
\* on the view's binding context, the value of the property it names.
ExpressionsBound(view) ==
    /\ ViewBindingContext(bc, view) # Undef
    /\ ViewBindingContext(bc, Parent[view]) # Undef
    /\ \A n \in AttrNames :
          Expression(view, n) # ""
          => /\ ValueOf(ctxs, ViewBindingContext(bc, Parent[view]),
                        Expression(view, n)) # Undef
             /\ ValueOf(ctxs, ViewBindingContext(bc, view), n)
                  = ValueOf(ctxs, ViewBindingContext(bc, Parent[view]),
                            Expression(view, n))

\* What the attribute n of the view stands for before the hook runs: the
\* parent context's value of the property an expression names, the
\* literal on the view otherwise.
AttributeValue(view, n) ==
    IF Expression(view, n) # ""
    THEN ValueOf(ctxs, ViewBindingContext(bc, Parent[view]), Expression(view, n))
    ELSE ViewProp[view][n]

\* C19: when a lifecycle hook runs for a child view that has the static
\* attribute fieldName="firstName" and the dynamic attribute record bound
\* to `user` on the parent's context, afterwards get('record') on the
\* child's controller equals the value of `user` from the parent's context
\* and get('fieldName') equals the literal "firstName".
C19_AttributePrecedence ==
    [][\A view \in CompViews :
          (/\ cnt'.hooks = cnt.hooks + 1
           /\ last'.view = view
           /\ last'.err = 0
           /\ ParamNames(view) = AttrNames
           /\ ExpressionsBound(view))
          => \A n \in AttrNames :
                ValueOf(ctxs', ViewBindingContext(bc', view), n)
                  = AttributeValue(view, n)]_vars

WasCalledFlag(c) == fns[comps[c].init].wasCalled

\* C28: the was-called flag and the stored return value of the ordering
\* protocol are per-instance: the flag read for a controller is true only
\* if that same instance's init has been invoked, whatever happened to
\* other instances of its class.
C28_FlagIsPerInstance ==
    \A c \in Comps : WasCalledFlag(c) => Inited(initLog, c)

\* C29: if a controller's root view is the page itself and the page is
\* already loaded when its lifecycle hook runs, init is invoked within
\* that hook and the controller does not subscribe to the page's loaded
\* event; in every other case the controller subscribes and init is not
\* invoked during the hook.
C29_InitNowOrSubscribe ==
    [][\A view \in CompViews :
          (cnt'.hooks = cnt.hooks + 1 /\ last'.view = view /\ last'.comp # 0)
          => IF view = PageV /\ isLoaded
             THEN /\ Len(initLog') > Len(initLog)
                  /\ initLog'[Len(initLog) + 1].c = last'.comp
                  /\ pageSubs' = pageSubs
             ELSE /\ initLog' = initLog
                  /\ pageSubs' = Append(pageSubs, last'.comp)]_vars

\* Registry entries whose controller has the given root view
EntriesOf(view) ==
    {i \in 1..Len(instances[classOf[view]]) :
        comps[instances[classOf[view]][i]].view = view}

\* C30: the removal armed on a view's unloaded event is one-shot: for a
\* view that is loaded, unloaded, loaded again and unloaded again, each
\* unloaded event removes exactly one instance from the registry and
\* reports no teardown error.
C30_RemovalIsOneShot ==
    [][\A view \in CompViews :
          (/\ cnt'.unloads = cnt.unloads + 1
           /\ last'.view = view
           /\ ~IsSingleton(classOf[view])
           /\ EntriesOf(view) # {})
          => /\ Len(instances'[classOf[view]])
                  = Len(instances[classOf[view]]) - 1
             /\ last'.logged = 0]_vars

\* The step is a direct call of the given kind on a controller.
DirectCall(op) ==
    /\ cnt'.calls = cnt.calls + 1
    /\ last'.op = "api"
    /\ host'.out.op = op

\* C21: for a controller whose binding context is defined, set(x, v)
\* followed by get(x) returns v, both when the context is an observable
\* and when it is a plain key-value object.
C21_SetThenGet ==
    [][(/\ last.op = "api"
        /\ host.out.op = "set"
        /\ host.out.err = 0
        /\ DirectCall("get")
        /\ host'.out.comp = host.out.comp
        /\ host'.out.name = host.out.name)
       => /\ host'.out.err = 0
          /\ host'.out.ret = host.out.value]_vars

\* get returned what the set just before it wrote on a plain object.
C21_Witness ==
    /\ last.op = "api"
    /\ host.out.op = "get"
    /\ host.out.err = 0
    /\ host.out.ret = 2
    /\ ~ctxs[CompBindingContext(World, host.out.comp)].obs

\* C22: get(name) and set(name, value) throw an error and leave every
\* binding context unchanged when the controller's view has an undefined
\* binding context.
C22_AccessWithoutContextThrows ==
    [][\A c \in Comps :
          (/\ DirectCall("get") \/ DirectCall("set")
           /\ host'.out.comp = c
           /\ comps[c].view # Undef
           /\ CompBindingContext(World, c) = Undef)
          => /\ host'.out.err # 0
             /\ ctxs' = ctxs
             /\ bc' = bc]_vars

\* set threw on a controller the manager created, whose view had lost its
\* binding context.
C22_Witness ==
    /\ last.op = "api"
    /\ host.out.op = "set"
    /\ host.out.err # 0
    /\ comps[host.out.comp].view # Undef
    /\ Tracked(World, host.out.comp)
    /\ CompBindingContext(World, host.out.comp) = Undef

\* C23: reading a controller's bindingContext property never throws,
\* including on a controller instance for which no lifecycle hook has run
\* and no view has been recorded.
C23_BindingContextReadNeverThrows ==
    [][DirectCall("bindingContext") => host'.out.err = 0]_vars

\* The calls of the page's showModal that carry the callback of the i-th
\* showModal invocation
HostCallsFor(i) ==
    {n \in 1..Len(host.showModal) : host.showModal[n].callback = i}

\* What the callback's invocation settles the promise to
Settled(cb) ==
    IF cb = << >> THEN Unsettled
    ELSE IF cb[1] = 0 THEN [st |-> "resolved", value |-> cb[2]]
    ELSE [st |-> "rejected", value |-> cb[1]]

\* C24: showModal({modal: m, ...}) calls the current page's showModal
\* exactly once with a completion callback, and the returned promise
\* resolves with r when that callback is invoked as (null, r) and rejects
\* with e when it is invoked as (e, undefined).
C24_ShowModalSettlesByCallback ==
    \A i \in 1..Len(host.modals) :
        host.modals[i].options.modal # Undef
        => /\ host.modals[i].stage \in {"valid", "shown"}
           /\ Cardinality(HostCallsFor(i))
                = IF host.modals[i].stage = "shown" THEN 1 ELSE 0
           /\ \A n \in HostCallsFor(i) :
                 host.showModal[n].modal = host.modals[i].options.modal
           /\ host.modals[i].inner = Settled(host.modals[i].cb)
           /\ host.modals[i].outer \in {Unsettled, host.modals[i].inner}

\* One returned promise was resolved with the result and another rejected
\* with the error the callback was given.
C24_Witness ==
    \E i, j \in 1..Len(host.modals) :
        /\ host.modals[i].cb = <<0, 4>>
        /\ host.modals[i].outer = [st |-> "resolved", value |-> 4]
        /\ host.modals[j].cb = <<6, 0>>
        /\ host.modals[j].outer = [st |-> "rejected", value |-> 6]

\* C26: showModal(options) with options that lack `modal` returns a
\* rejected promise and never calls the host page's showModal.
C26_ShowModalWithoutModalRejects ==
    \A i \in 1..Len(host.modals) :
        host.modals[i].options.modal = Undef
        => /\ HostCallsFor(i) = {}
           /\ host.modals[i].stage \in {"invalid", "rejected"}
           /\ host.modals[i].stage = "rejected"
                => host.modals[i].outer.st = "rejected"
           /\ host.modals[i].outer.st \in {"pending", "rejected"}

\* The promise returned for options without `modal` was rejected.
C26_Witness ==
    \E i \in 1..Len(host.modals) :
        /\ host.modals[i].options.modal = Undef
        /\ host.modals[i].outer.st = "rejected"
        /\ host.showModal = << >>

\* C25: closeModal(args...) on a controller for which onShownModally has
\* captured no close callback throws an error and invokes no callback; on
\* a controller whose onShownModally captured the close callback cb, it
\* invokes cb with exactly the given arguments and returns cb's result.
C25_CloseModalForwardsArguments ==
    [][\A c \in Comps :
          (DirectCall("closeModal") /\ host'.out.comp = c)
          => IF comps[c].closeModalCallback = Undef
             THEN /\ host'.out.err # 0
                  /\ host'.closed = host.closed
             ELSE /\ host'.out.err = 0
                  /\ host'.out.ret = CallbackResult
                  /\ host'.closed =
                        Append(host.closed,
                               [cb |-> comps[c].closeModalCallback,
                                args |-> host'.out.args])]_vars

\* closeModal(null, result) reached the callback that onShownModally
\* captured, and returned its result.
C25_Witness ==
    /\ last.op = "api"
    /\ host.out.op = "closeModal"
    /\ host.out.err = 0
    /\ host.out.ret = CallbackResult
    /\ comps[host.out.comp].closeModalCallback = CloseCallback
    /\ host.closed = <<[cb |-> CloseCallback, args |-> <<0, 4>>]>>

\* The module path of each component name
ModulePath == [foo |-> "components/foo/foo"]

\* C27: navigate(entry) with an object entry whose `component` is a string
\* c calls the host's navigate with an entry whose moduleName is
\* components/c/c; navigate with an entry that has no string `component`
\* calls the host's navigate with the entry unchanged.
C27_NavigateRewritesComponent ==
    [][DirectCall("navigate")
       => /\ Len(host'.navigate) = Len(host.navigate) + 1
          /\ \A n \in {Len(host'.navigate)} :
               IF /\ host'.out.args # << >>
                  /\ host'.out.args[1].t = "object"
                  /\ host'.out.args[1].component.t = "string"
               THEN /\ host'.navigate[n][1].moduleName
                         = JsString(ModulePath[host'.out.args[1].component.v])
                    /\ host'.navigate[n][1].component
                         = host'.out.args[1].component
               ELSE host'.navigate[n] = host'.out.args]_vars

\* navigate({component: 'foo', moduleName: 'bar'}) reached the host with
\* the module path of foo, after an entry without component had passed
\* unchanged.
C27_Witness ==
    /\ last.op = "api"
    /\ host.out.op = "navigate"
    /\ Len(host.navigate) = 2
    /\ host.navigate[1] = <<Entry(JsUndefined, JsString("bar"))>>
    /\ host.out.args = <<Entry(JsString("foo"), JsString("bar"))>>
    /\ host.navigate[2][1].moduleName = JsString("components/foo/foo")

\* The step is an init-hook export call that created a new instance.
HookCreated(c) ==
    /\ cnt'.hooks = cnt.hooks + 1
    /\ Len(comps') = Len(comps) + 1
    /\ c = Len(comps')

\* C31: for a newly created instance, the marker is written to the
\* binding context only after the forwarded lifecycle hook has returned:
\* an init run inside the hook finds no marker of the instance on its
\* binding context, a hook that throws leaves none, and a hook that
\* returns leaves it.
C31_MarkerAfterHook ==
    [][\A c \in 1..Len(comps') :
          HookCreated(c)
          => /\ \A i \in (Len(initLog) + 1)..Len(initLog') :
                   initLog'[i].c = c => ~initLog'[i].marked
             /\ CarriesOwnMarker(World', c) <=> last'.err = 0]_vars

\* A hook on the loaded page created an instance and ran its init, which
\* saw no marker; the marker is there after the hook.
C31_Witness ==
    /\ last.op = "hook"
    /\ last.err = 0
    /\ Len(comps) = 1
    /\ Len(initLog) = 1
    /\ initLog[1].c = 1
    /\ ~initLog[1].marked
    /\ CarriesOwnMarker(World, 1)

\* C32: for every attribute name found on the view, the value applied to
\* the binding context is chosen with the precedence own binding context,
\* parent's binding context, literal on the view: a value present on the
\* controller's own binding context is applied even when the parent's
\* context or the view holds a different value, for every value including
\* false, 0 and the empty string.
C32_OwnValueFirst ==
    [][\A view \in CompViews :
          (cnt'.hooks = cnt.hooks + 1 /\ last'.view = view /\ last'.err = 0)
          => \A n \in ParamNames(view) :
                ValueOf(ctxs, ViewBindingContext(bc, view), n) # Undef
                => ValueOf(ctxs', ViewBindingContext(bc', view), n)
                     = ValueOf(ctxs, ViewBindingContext(bc, view), n)]_vars

\* The controller referenced by the marker on the first view, starting at
\* the given view and following parent references, whose own binding
\* context carries one (0: there is none).
RECURSIVE FirstMarked(_)
FirstMarked(view) ==
    IF view = 0 THEN 0
    ELSE IF bc[view] # Undef /\ ctxs[bc[view]].p["_component"] # Undef
    THEN ctxs[bc[view]].p["_component"]
    ELSE FirstMarked(Parent[view])

\* C33: for a non-singleton class, a plain-method export called for view v
\* forwards the call, with the original arguments, to the controller
\* referenced by the marker on the first view, starting at v and following
\* parent references, whose binding context carries the marker, and
\* returns that method's result (the method sets x and returns `this`).
C33_MethodForwardedToMarkedController ==
    [][\A view \in Views :
          (/\ cnt'.calls = cnt.calls + 1
           /\ last'.op = "method"
           /\ last'.view = view
           /\ ModuleOf(view) \in NonSingletonClasses
           /\ FirstMarked(view) # 0)
          => /\ last'.comp = FirstMarked(view)
             /\ last'.err = 0
                  => /\ CompGet(World, FirstMarked(view), "x") \notin UserValues
                        => ctxs' # ctxs
                     /\ ValueOf(ctxs', CompBindingContext(World, FirstMarked(view)),
                                "x") \in UserValues]_vars

\* A call for a view nested in a component's template, which has no
\* binding context of its own, reached the controller of the enclosing
\* root view although another instance of the class exists.
C33_Witness ==
    /\ MethodCalled("A")
    /\ last.err = 0
    /\ last.comp = 2
    /\ comps[2].view = Parent[last.view]
    /\ bc[last.view] = Undef
    /\ instances["A"] = <<1, 2>>

\* The invocations of the user's init of controller c
InitsOf(c) == {i \in 1..Len(initLog) : initLog[i].c = c}

\* C34: between a controller instance's creation and its removal, its
\* init is invoked at most once, whatever combination of lifecycle hooks
\* is connected for its view and however many times the page's loaded
\* event fires.
C34_InitAtMostOnce ==
    \A c \in Comps : Cardinality(InitsOf(c)) <= 1

\* C35: for a non-singleton class, an init-hook export call for view v
\* never changes the root view or the binding context of a controller
\* instance that was created for a different view, including when v is
\* nested inside another view of the same class whose hook has run.
C35_HookLeavesOtherControllers ==
    [][\A view \in CompViews :
          (/\ cnt'.hooks = cnt.hooks + 1
           /\ last'.view = view
           /\ ~IsSingleton(classOf[view]))
          => \A c \in Comps :
                comps[c].view # view
                => /\ comps'[c].view = comps[c].view
                   /\ bc'[comps'[c].view] = bc[comps[c].view]]_vars

\* C36: if the lifecycle hook forwarded by an init-hook export throws for
\* a newly created instance, the registry is left as it was before the
\* call: no entry remains whose identifier is not written as marker on
\* its view's binding context.
C36_ThrowingHookLeavesRegistry ==
    [][(/\ cnt'.hooks = cnt.hooks + 1
        /\ Len(comps') = Len(comps) + 1
        /\ last'.err # 0)
       => /\ instances' = instances
          /\ \A cls \in Classes : \A i \in 1..Len(instances'[cls]) :
                CarriesOwnMarker(World', instances'[cls][i])]_vars

\* The controller was created and is in no registry: only the listener
\* of its view's `unloaded` event removes an entry.
Removed(c) ==
    \A cls \in Classes : \A i \in 1..Len(instances[cls]) : instances[cls][i] # c

\* C37: after a non-singleton controller instance has been removed from
\* the registry by its view's unloaded event, its init is never invoked
\* again by a later loaded event of the page.
C37_NoInitAfterRemoval ==
    [][\A c \in Comps :
          (/\ Removed(c)
           /\ InitsOf(c) # {}
           /\ last'.op = "handler")
          => \A i \in (Len(initLog) + 1)..Len(initLog') : initLog'[i].c # c]_vars

\* The controller's lifecycle hook ran before the page's `loaded` event:
\* its listener is one of those the event notifies.
NotifiedByLoaded(c) ==
    /\ c <= Len(comps)
    /\ cnt.loads > 0
    /\ \E i \in 1..snap : pageSubs[i] = c

\* A promise returned by the init of an ancestor of c has not settled.
AncestorPromisePending(c) ==
    \E i \in 1..Len(initLog) :
       /\ initLog[i].p # 0
       /\ promises[initLog[i].p].st = "pending"
       /\ IsAncestor(comps[initLog[i].c].view, comps[c].view)

\* C38: once the page's loaded event has fired and every promise
\* returned by an ancestor's init has settled, every controller whose
\* lifecycle hook ran before that loaded event eventually has its init
\* invoked.
C38_InitEventuallyInvoked ==
    <>[](\A c \in Comps :
            (/\ NotifiedByLoaded(c)
             /\ ~AncestorPromisePending(c)
             /\ Len(initLog) < MaxInits)
            => InitsOf(c) # {})

====
